---- MODULE Spec2Model ----
(***************************************************************************)
(* Model of the katana plugins (src/plugins: Docker, ReverseProxy,         *)
(* GetUrl, DesktopIntegration), of the parameter validation they inherit   *)
(* (Plugin.py) and of the DockerProvisioner.                               *)
(*                                                                         *)
(* The docker daemon is the external state: the containers known to it     *)
(* (by name, with a status, the image they were created from and their    *)
(* port bindings) and the images available locally.  Each plugin method    *)
(* is an operator from (params, containers, images) to the daemon state it *)
(* leaves and the result it hands back; the actions apply the operators.   *)
(*                                                                         *)
(* Spec is the plugin on its own: its four methods invoked in any order    *)
(* with any params.  SpecProv is a DockerProvisioner                       *)
(* (src/provisioners/DockerProvisioner.py) running its lifecycle actions   *)
(* step by step: the runtime pre-condition checks, then the tasks of the   *)
(* action's list, one dispatch per step.  runtime is what                  *)
(* katanacore.status_module('docker') reports, host the side effects of    *)
(* the other plugins' tasks, run the position of the lifecycle call.       *)
(*                                                                         *)
(* plugin names the plugin whose methods are being invoked.  The other     *)
(* plugins (ReverseProxy, DesktopIntegration, GetUrl) work on env: the     *)
(* files on disk, the desktop menu and the favourites; pcall keeps their   *)
(* latest invocation with the env it found.  SpecPlugins is the methods    *)
(* of all four plugins, each plugin invoked in any order with any params.  *)
(* resolution is a link resolution of GetUrl in progress, one request per *)
(* step, over the pages it is answered with (SpecLink).                    *)
(*                                                                         *)
(* Python values: a params mapping is <<d>> for a dict d and <<>> for      *)
(* None; an optional value is <<v>> or <<>> for None; a message is a tuple *)
(* <<text, argument>> or <<>> for None.                                    *)
(***************************************************************************)
EXTENDS Integers, Sequences, FiniteSets, TLC

VARIABLES containers, images, last, runtime, host, module_info, run,
          plugin, env, pcall, resolution

vars == <<containers, images, last, runtime, host, module_info, run,
          plugin, env, pcall, resolution>>

\* what the docker plugin and its provisioner work on, and what the other
\* plugins work on
dockerside == <<containers, images, last, runtime, host, module_info, run>>

elsewhere == <<plugin, env, pcall, resolution>>

(***************************************************************************)
(* Input domains.  No container name contains another, so the daemon's     *)
(* name filter selects at most the named container.                        *)
(***************************************************************************)
Names == {"app", "db"}

ImageRefs == {"app", "nginx"}

Paths == {"/opt/app"}

Statuses == {"created", "running", "exited"}

None == <<>>

\* the largest ports mapping an install is given
MaxPorts == 1

GuestPorts == <<"80/tcp", "443/tcp", "3000/tcp">>

HostPorts == <<8080, 8443, 3000>>

\* the ports mappings of 0..MaxPorts entries, {} included
PortMap(size) ==
    [p \in {GuestPorts[k] : k \in 1..size} |->
        HostPorts[CHOOSE k \in 1..size : GuestPorts[k] = p]]

PortMaps == {PortMap(size) : size \in 0..MaxPorts}

(***************************************************************************)
(* dict helpers: key in params.keys(), params.get(key)                     *)
(***************************************************************************)
HasKey(params, key) == params # None /\ key \in DOMAIN params[1]

Get(params, key) == IF HasKey(params, key) THEN <<params[1][key]>> ELSE None

(***************************************************************************)
(* Plugin._validate_params: the first required key, in list order, that is *)
(* missing from params (or any key when params is None) is raised as       *)
(* MissingRequiredParam(key, plugin_name).                                 *)
(***************************************************************************)
MissingKeys(params, required_params) ==
    {i \in 1..Len(required_params) : ~HasKey(params, required_params[i])}

\* a validation that would name the last missing key
FirstMissing_last(params, required_params) ==
    CHOOSE i \in MissingKeys(params, required_params) :
        \A j \in MissingKeys(params, required_params) : i >= j

FirstMissing(params, required_params) ==
    CHOOSE i \in MissingKeys(params, required_params) :
        \A j \in MissingKeys(params, required_params) : i <= j

validate_params(params, required_params, plugin_name) ==
    IF MissingKeys(params, required_params) = {}
    THEN None
    ELSE <<"MissingRequiredParam",
           required_params[FirstMissing(params, required_params)], plugin_name>>

(***************************************************************************)
(* Results of a plugin method: a return of (changed, msg), or a raise.     *)
(***************************************************************************)
Return(changed, msg, calls) ==
    [returned |-> TRUE, changed |-> changed, msg |-> msg, raised |-> None,
     calls |-> calls]

Raise(exc, calls) ==
    [returned |-> FALSE, changed |-> FALSE, msg |-> None, raised |-> exc,
     calls |-> calls]

Outcome(c, i, res) == [containers |-> c, images |-> i, res |-> res]

(***************************************************************************)
(* The docker SDK calls the plugin makes.                                  *)
(***************************************************************************)
\* client.containers.list(filters={'name': name}, all=True)
containers_list(c, name) == IF name \in DOMAIN c THEN <<name>> ELSE <<>>

\* client.images.list(name=ref): the local images of repository ref
images_list(i, ref) == {img \in i : img.repo = ref}

\* client.images.pull(ref): ref:latest becomes available locally
PulledImage(ref) == [repo |-> ref, tag |-> "latest"]

\* client.images.build(path=..., tag='<name>:local', forcerm=True)
BuiltImage(name) == [repo |-> name, tag |-> "local"]

\* client.containers.create(image=image_id, name=name, detach=True, ports=...)
containers_create(c, name, image_id, port_mappings) ==
    (name :> [status |-> "created", image |-> image_id,
              ports |-> port_mappings]) @@ c

\* container.remove(v=True)
container_remove(c, name) == [n \in (DOMAIN c) \ {name} |-> c[n]]

\* container.start()
container_start(c, name) == [c EXCEPT ![name].status = "running"]

\* container.stop()
container_stop(c, name) == [c EXCEPT ![name].status = "exited"]

\* an untagged image left behind by an earlier pull or build
Dangling == [repo |-> "<none>", tag |-> "<none>"]

\* client.images.prune(): deletes the dangling (untagged) images; every image
\* the plugin pulls or builds carries a tag
images_prune(i) == {img \in i : img.tag # "<none>"}

\* a binding to every address of the host
PortMappings_any(ports) == [p \in DOMAIN ports |-> <<"0.0.0.0", ports[p]>>]

\* port_mappings[container_port] = ('127.0.0.1', ports.get(container_port))
PortMappings(ports) == [p \in DOMAIN ports |-> <<"127.0.0.1", ports[p]>>]

(***************************************************************************)
(* Docker.install                                                          *)
(***************************************************************************)
\* a container of that name exists: nothing is done
InstallExisting(params, c, i) ==
    Outcome(c, i,
            Return(FALSE,
                   <<"A container named '{}' is already installed.",
                     params[1]["name"]>>,
                   <<"containers.list">>))

\* no container and no local image: pull (no path) or build (path), then
\* create the container from the image; the container is not started
InstallFetch(params, c, i) ==
    LET name == params[1]["name"]
        image == params[1]["image"]
        port_mappings == PortMappings(params[1]["ports"])
        pull == Get(params, "path") \in {None, <<"None">>}
        image_id == IF pull THEN PulledImage(image) ELSE BuiltImage(name)
    IN  Outcome(containers_create(c, name, image_id, port_mappings),
                i \cup {image_id},
                Return(TRUE, None,
                       <<"containers.list", "images.list",
                         IF pull THEN "images.pull" ELSE "images.build",
                         "containers.create", "container.logs">>))

\* no container but the image is available locally: the creation sits
\* inside the branch of the missing image, so only the return is reached
InstallLocal(params, c, i) ==
    Outcome(c, i, Return(TRUE, None, <<"containers.list", "images.list">>))

install(params, c, i) ==
    LET missing == validate_params(params, <<"name", "image">>, "docker")
    IN  IF missing # None
        THEN Outcome(c, i, Raise(missing, <<>>))
        ELSE IF Get(params, "ports") = None
        THEN Outcome(c, i, Raise(<<"AttributeError", "NoneType", "keys">>,
                                 <<"containers.list">>))
        ELSE IF Len(containers_list(c, params[1]["name"])) > 0
        THEN InstallExisting(params, c, i)
        ELSE IF Cardinality(images_list(i, params[1]["image"])) = 0
        THEN InstallFetch(params, c, i)
        ELSE InstallLocal(params, c, i)

(***************************************************************************)
(* Docker.remove                                                           *)
(***************************************************************************)
\* mutation: a missing container is reported as a critical failure
RemoveAbsent_raises(params, c, i) ==
    Outcome(c, i,
            Raise(<<"CriticalFunctionFailure", "docker",
                    "No container to remove.">>,
                  <<"containers.list">>))

RemoveAbsent(params, c, i) ==
    Outcome(c, i,
            Return(FALSE,
                   <<"No container named '{}' was found. It will need to be installed before you can remove it.",
                     params[1]["name"]>>,
                   <<"containers.list">>))

\* mutation: a running container is removed by force
RemoveRunning_forced(params, c, i) ==
    Outcome(container_remove(c, containers_list(c, params[1]["name"])[1]),
            images_prune(i),
            Return(TRUE, <<"Container removed: '{}", params[1]["name"]>>,
                   <<"containers.list", "container.remove", "images.prune">>))

RemoveRunning(params, c, i) ==
    Outcome(c, i,
            Raise(<<"CriticalFunctionFailure", "docker",
                    "Cannot remove a running container.">>,
                  <<"containers.list">>))

\* mutation: the images are pruned but the container is not removed
RemoveStopped_keeps(params, c, i) ==
    Outcome(c, images_prune(i),
            Return(TRUE, <<"Container removed: '{}", params[1]["name"]>>,
                   <<"containers.list", "images.prune">>))

RemoveStopped(params, c, i) ==
    Outcome(container_remove(c, containers_list(c, params[1]["name"])[1]),
            images_prune(i),
            Return(TRUE, <<"Container removed: '{}", params[1]["name"]>>,
                   <<"containers.list", "container.remove", "images.prune">>))

remove(params, c, i) ==
    LET missing == validate_params(params, <<"name">>, "docker")
    IN  IF missing # None
        THEN Outcome(c, i, Raise(missing, <<>>))
        ELSE IF Len(containers_list(c, params[1]["name"])) = 0
        THEN RemoveAbsent(params, c, i)
        ELSE IF c[containers_list(c, params[1]["name"])[1]].status = "running"
        THEN RemoveRunning(params, c, i)
        ELSE RemoveStopped(params, c, i)

(***************************************************************************)
(* Docker.start                                                            *)
(***************************************************************************)
StartAbsent(params, c, i) ==
    Outcome(c, i,
            Return(FALSE,
                   <<"No container named '{}' was found. It will need to be installed before you can start it.",
                     params[1]["name"]>>,
                   <<"containers.list">>))

\* mutation: a running container is started again and reported as changed
StartRunning_again(params, c, i) ==
    Outcome(container_start(c, containers_list(c, params[1]["name"])[1]), i,
            Return(TRUE, None, <<"containers.list", "container.start">>))

StartRunning(params, c, i) ==
    Outcome(c, i,
            Return(FALSE,
                   <<"The '{}' container is already running.",
                     params[1]["name"]>>,
                   <<"containers.list">>))

StartStopped(params, c, i) ==
    Outcome(container_start(c, containers_list(c, params[1]["name"])[1]), i,
            Return(TRUE, None, <<"containers.list", "container.start">>))

start(params, c, i) ==
    LET missing == validate_params(params, <<"name">>, "docker")
    IN  IF missing # None
        THEN Outcome(c, i, Raise(missing, <<>>))
        ELSE IF Len(containers_list(c, params[1]["name"])) = 0
        THEN StartAbsent(params, c, i)
        ELSE IF c[containers_list(c, params[1]["name"])[1]].status = "running"
        THEN StartRunning(params, c, i)
        ELSE StartStopped(params, c, i)

(***************************************************************************)
(* Docker.stop                                                             *)
(***************************************************************************)
StopAbsent(params, c, i) ==
    Outcome(c, i,
            Return(FALSE,
                   <<"No container named '{}' was found. It will need to be installed before you can stop it.",
                     params[1]["name"]>>,
                   <<"containers.list">>))

\* mutation: stopping a container that is not running is made an error
StopStopped_raises(params, c, i) ==
    Outcome(c, i,
            Raise(<<"CriticalFunctionFailure", "docker",
                    "Cannot stop a container that is not running.">>,
                  <<"containers.list">>))

StopStopped(params, c, i) ==
    Outcome(c, i,
            Return(FALSE,
                   <<"The '{}' container is not running.", params[1]["name"]>>,
                   <<"containers.list">>))

\* mutation: the container is stopped but the change is not reported
StopRunning_unreported(params, c, i) ==
    Outcome(container_stop(c, containers_list(c, params[1]["name"])[1]), i,
            Return(FALSE, None, <<"containers.list", "container.stop">>))

StopRunning(params, c, i) ==
    Outcome(container_stop(c, containers_list(c, params[1]["name"])[1]), i,
            Return(TRUE, None, <<"containers.list", "container.stop">>))

stop(params, c, i) ==
    LET missing == validate_params(params, <<"name">>, "docker")
    IN  IF missing # None
        THEN Outcome(c, i, Raise(missing, <<>>))
        ELSE IF Len(containers_list(c, params[1]["name"])) = 0
        THEN StopAbsent(params, c, i)
        ELSE IF c[containers_list(c, params[1]["name"])[1]].status # "running"
        THEN StopStopped(params, c, i)
        ELSE StopRunning(params, c, i)

(***************************************************************************)
(* The params the methods are invoked with.                                *)
(***************************************************************************)
Dict(keys, full) == <<[k \in keys |-> full[k]]>>

InstallDicts ==
    {[name |-> "app", image |-> im, path |-> pa, ports |-> po] :
        im \in ImageRefs, pa \in Paths \cup {"None"}, po \in PortMaps}
    \cup {[name |-> "db", image |-> "nginx", path |-> "None",
           ports |-> PortMap(1)]}

InstallParams ==
    {None}
    \cup {Dict(ks, d) : ks \in {{"name", "image", "path", "ports"},
                                {"name", "image", "ports"},
                                {"name", "image", "path"},
                                {"image", "ports"},
                                {"name", "ports"}},
                        d \in InstallDicts}

NameParams == {None, <<[image |-> "app"]>>} \cup {<<[name |-> n]>> : n \in Names}

(***************************************************************************)
(* State machine: the methods are invoked one after another, in any order, *)
(* with any params, against whatever state the daemon is in.  last keeps   *)
(* the latest invocation with the state it found and, when the invocation  *)
(* before it was the same method with the same params, what that one found *)
(* and returned.                                                           *)
(***************************************************************************)
NoCall == [op |-> "none", params |-> None, containers |-> <<>>, images |-> {},
           res |-> Return(FALSE, None, <<>>), first |-> None]

Brief(l) == [returned |-> l.res.returned, changed |-> l.res.changed,
             absent |-> (HasKey(l.params, "name")
                           /\ l.params[1]["name"] \notin DOMAIN l.containers),
             local |-> (HasKey(l.params, "image")
                          /\ images_list(l.images, l.params[1]["image"]) # {})]

\* no lifecycle call in progress
Idle == [phase |-> "idle", action |-> "none", pc |-> 0, core |-> <<>>,
         log |-> <<>>]

NoHost == [repo |-> FALSE, hosts |-> FALSE, conf |-> FALSE]

\* nothing on disk, nothing registered, no favourites
NoEnv == [files |-> <<>>, menu |-> {}, favs |-> {}]

\* a desktop whose favourites hold nothing, or one other application
OtherFavorite == "firefox.desktop"

DesktopEnvs == {NoEnv, [NoEnv EXCEPT !.favs = {OtherFavorite}]}

\* no link resolution in progress
NoLink == [phase |-> "idle", web |-> <<>>, url |-> "", depth |-> 0,
           out |-> <<>>]

NoPluginCall == [op |-> "none", params |-> None, input |-> None,
                 env |-> NoEnv, res |-> Return(FALSE, None, <<>>),
                 first |-> None]

\* the plugin alone, talking to a running daemon; no provisioner exists
Init ==
    /\ containers = <<>>
    /\ images \in SUBSET ({PulledImage(r) : r \in ImageRefs} \cup {Dangling})
    /\ last = NoCall
    /\ runtime = "running"
    /\ host = NoHost
    /\ module_info = None
    /\ run = Idle
    /\ plugin = "docker"
    /\ env = NoEnv
    /\ pcall = NoPluginCall
    /\ resolution = NoLink

Record(op, params, out) ==
    /\ containers' = out.containers
    /\ images' = out.images
    /\ last' = [op |-> op, params |-> params, containers |-> containers,
                images |-> images, res |-> out.res,
                first |-> IF last.op = op /\ last.params = params
                          THEN <<Brief(last)>> ELSE None]

Invoke(op, params, out) ==
    /\ plugin = "docker"
    /\ run.phase = "idle"
    /\ runtime = "running"
    /\ Record(op, params, out)
    /\ UNCHANGED <<runtime, host, module_info, run>>
    /\ UNCHANGED elsewhere

DockerInstall ==
    \E params \in InstallParams :
        Invoke("install", params, install(params, containers, images))

DockerRemove ==
    \E params \in NameParams :
        Invoke("remove", params, remove(params, containers, images))

DockerStart ==
    \E params \in NameParams :
        Invoke("start", params, start(params, containers, images))

DockerStop ==
    \E params \in NameParams :
        Invoke("stop", params, stop(params, containers, images))

Next == DockerInstall \/ DockerRemove \/ DockerStart \/ DockerStop

Spec == Init /\ [][Next]_vars

(***************************************************************************)
(* The module descriptors a DockerProvisioner is constructed with.         *)
(* container.image and a port's host are optional; destination may be      *)
(* missing.                                                                *)
(***************************************************************************)
ModuleInfos ==
    { [name |-> "demo", git_repo |-> "https://example.org/demo.git",
       destination |-> <<"/opt/app">>,
       container |-> [name |-> "app", image |-> None,
                      ports |-> <<[guest |-> 80, host |-> <<8080>>]>>],
       hosting |-> [domain |-> "demo.local", listen |-> 80,
                    proxy_pass |-> "http://localhost:8080"]],
      [name |-> "store", git_repo |-> "https://example.org/store.git",
       destination |-> None,
       container |-> [name |-> "db", image |-> <<"nginx">>,
                      ports |-> <<[guest |-> 80, host |-> None]>>],
       hosting |-> [domain |-> "store.local", listen |-> 80,
                    proxy_pass |-> "http://localhost:80"]],
      [name |-> "multi", git_repo |-> "https://example.org/multi.git",
       destination |-> None,
       container |-> [name |-> "app", image |-> <<"nginx">>,
                      ports |-> <<[guest |-> 80, host |-> <<8080>>],
                                  [guest |-> 443, host |-> <<8443>>],
                                  [guest |-> 80, host |-> <<3000>>]>>],
       hosting |-> [domain |-> "multi.local", listen |-> 80,
                    proxy_pass |-> "http://localhost:3000"]],
      [name |-> "bare", git_repo |-> "https://example.org/bare.git",
       destination |-> <<"/opt/app">>,
       container |-> [name |-> "db", image |-> None, ports |-> <<>>],
       hosting |-> [domain |-> "bare.local", listen |-> 80,
                    proxy_pass |-> "http://localhost:80"]] }

\* '{}/tcp'.format(port.get('guest'))
GuestKey(guest) == CASE guest = 80 -> "80/tcp"
                     [] guest = 443 -> "443/tcp"

\* int(port.get('host', 80))
HostPort(port) == IF port.host = None THEN 80 ELSE port.host[1]

\* ports = {}; for port in ...: ports[key] = host port (a later entry of the
\* same guest port replaces the earlier one)
RECURSIVE PortsDict(_)
PortsDict(list) ==
    IF list = <<>>
    THEN <<>>
    ELSE LET front == PortsDict(SubSeq(list, 1, Len(list) - 1))
             port == list[Len(list)]
         IN  (GuestKey(port.guest) :> HostPort(port)) @@ front

\* a value that may be None, as a params value
OrNone(opt) == IF opt = None THEN "None" ELSE opt[1]

\* a func list that would write the hosts entry before provisioning
InstallTasks_swapped(mi) ==
    << [key |-> "git",
        params |-> <<[repo |-> mi.git_repo, dest |-> OrNone(mi.destination)]>>],
       [key |-> "lineinfile",
        params |-> <<[dest |-> "/etc/hosts",
                      line |-> <<"127.0.0.1   {}", mi.hosting.domain>>]>>],
       [key |-> "docker",
        params |-> <<[name |-> mi.container.name,
                      image |-> IF mi.container.image = None
                                THEN mi.container.name
                                ELSE mi.container.image[1],
                      path |-> OrNone(mi.destination),
                      ports |-> PortsDict(mi.container.ports)]>>],
       [key |-> "copy",
        params |-> <<[dest |-> <<"/etc/nginx/conf.d/{}.conf", mi.name>>,
                      content |-> <<mi.hosting.listen, mi.hosting.domain,
                                    mi.hosting.proxy_pass>>,
                      mode |-> 774]>>],
       [key |-> "service",
        params |-> <<[name |-> "nginx", state |-> "restarted"]>>] >>

\* the func list of DockerProvisioner.install
InstallTasks(mi) ==
    << [key |-> "git",
        params |-> <<[repo |-> mi.git_repo, dest |-> OrNone(mi.destination)]>>],
       [key |-> "docker",
        params |-> <<[name |-> mi.container.name,
                      image |-> IF mi.container.image = None
                                THEN mi.container.name
                                ELSE mi.container.image[1],
                      path |-> OrNone(mi.destination),
                      ports |-> PortsDict(mi.container.ports)]>>],
       [key |-> "lineinfile",
        params |-> <<[dest |-> "/etc/hosts",
                      line |-> <<"127.0.0.1   {}", mi.hosting.domain>>]>>],
       [key |-> "copy",
        params |-> <<[dest |-> <<"/etc/nginx/conf.d/{}.conf", mi.name>>,
                      content |-> <<mi.hosting.listen, mi.hosting.domain,
                                    mi.hosting.proxy_pass>>,
                      mode |-> 774]>>],
       [key |-> "service",
        params |-> <<[name |-> "nginx", state |-> "restarted"]>>] >>

\* the func list of DockerProvisioner.remove
RemoveTasks(mi) ==
    << [key |-> "docker", params |-> <<[name |-> mi.container.name]>>],
       [key |-> "lineinfile",
        params |-> <<[dest |-> "/etc/hosts",
                      line |-> <<"127.0.0.1   {}", mi.hosting.domain>>,
                      state |-> "absent"]>>],
       [key |-> "rm",
        params |-> <<[path |-> <<"/etc/nginx/conf.d/{}.conf", mi.name>>]>>] >>

\* the single task of DockerProvisioner.start and DockerProvisioner.stop
NameTask(mi) ==
    << [key |-> "docker", params |-> <<[name |-> mi.container.name]>>] >>

Tasks(action, mi) ==
    CASE action = "install" -> InstallTasks(mi)
      [] action = "remove" -> RemoveTasks(mi)
      [] action = "start" -> NameTask(mi)
      [] action = "stop" -> NameTask(mi)

\* self.action_list
action_list == <<"stop", "start", "install", "remove">>

(***************************************************************************)
(* katanacore, the runtime-status collaborator: status_module reports one  *)
(* of 'not installed', 'stopped', 'running'; install_module installs a     *)
(* runtime that is not installed; start_module starts an installed,        *)
(* stopped runtime.                                                        *)
(***************************************************************************)
RuntimeStatuses == {"not installed", "stopped", "running"}

status_module(rt) == rt

install_module(rt) == IF rt = "not installed" THEN "stopped" ELSE rt

start_module(rt) == IF rt = "stopped" THEN "running" ELSE rt

(***************************************************************************)
(* Dispatch of one task: the plugin of the task's key runs the method      *)
(* named by the action.  The docker plugin is the one above; its client    *)
(* call fails when no daemon is running.  The other plugins are known by   *)
(* their effect only.                                                      *)
(***************************************************************************)
DockerMethod(action, params, c, i) ==
    CASE action = "install" -> install(params, c, i)
      [] action = "remove" -> remove(params, c, i)
      [] action = "start" -> start(params, c, i)
      [] action = "stop" -> stop(params, c, i)

\* the required keys each method of the docker plugin validates first
DockerRequired(action) ==
    IF action = "install" THEN <<"name", "image">> ELSE <<"name">>

\* self._validate_params(...), then docker.DockerClient(base_url=...)
\* followed by the first client call
DockerCall(action, params, c, i, rt) ==
    IF validate_params(params, DockerRequired(action), "docker") # None
    THEN DockerMethod(action, params, c, i)
    ELSE IF rt = "running"
    THEN DockerMethod(action, params, c, i)
    ELSE Outcome(c, i,
                 Raise(<<"DockerException", "docker",
                         "Error while fetching server API version">>, <<>>))

HostTask(task, h) ==
    CASE task.key = "git" ->
            [host |-> [h EXCEPT !.repo = TRUE], changed |-> ~h.repo]
      [] task.key = "lineinfile" /\ HasKey(task.params, "state") ->
            [host |-> [h EXCEPT !.hosts = FALSE], changed |-> h.hosts]
      [] task.key = "lineinfile" /\ ~HasKey(task.params, "state") ->
            [host |-> [h EXCEPT !.hosts = TRUE], changed |-> ~h.hosts]
      [] task.key = "copy" ->
            [host |-> [h EXCEPT !.conf = TRUE], changed |-> ~h.conf]
      [] task.key = "rm" ->
            [host |-> [h EXCEPT !.conf = FALSE], changed |-> h.conf]
      [] task.key = "service" ->
            [host |-> h, changed |-> TRUE]

(***************************************************************************)
(* DockerProvisioner: a lifecycle call runs its pre-condition checks, then *)
(* dispatches its tasks in list order; a raise ends the call at once.      *)
(***************************************************************************)
InitProv ==
    /\ containers = <<>>
    /\ images \in SUBSET ({PulledImage(r) : r \in ImageRefs} \cup {Dangling})
    /\ last = NoCall
    /\ runtime \in RuntimeStatuses
    /\ runtime = "not installed" => images = {}
    /\ host = NoHost
    /\ module_info \in {<<mi>> : mi \in ModuleInfos}
    /\ run = Idle
    /\ plugin = "docker"
    /\ env = NoEnv
    /\ pcall = NoPluginCall
    /\ resolution = NoLink

\* the caller invokes install(), remove(), start() or stop()
ProvCall ==
    \E k \in 1..Len(action_list) :
        /\ run.phase = "idle"
        /\ run' = [phase |-> IF action_list[k] = "install"
                             THEN "ensure_installed" ELSE "ensure_running",
                   action |-> action_list[k], pc |-> 1, core |-> <<>>,
                   log |-> <<>>]
        /\ UNCHANGED <<containers, images, last, runtime, host, module_info>>
        /\ UNCHANGED elsewhere

\* if katanacore.status_module('docker') == 'not installed':
\*     katanacore.install_module('docker')
ProvEnsureInstalled ==
    /\ run.phase = "ensure_installed"
    /\ IF status_module(runtime) = "not installed"
       THEN /\ runtime' = install_module(runtime)
            /\ run' = [run EXCEPT !.phase = "ensure_running",
                                  !.core = Append(@, "install_module")]
       ELSE /\ runtime' = runtime
            /\ run' = [run EXCEPT !.phase = "ensure_running"]
    /\ UNCHANGED <<containers, images, last, host, module_info>>
    /\ UNCHANGED elsewhere

\* a check that would call start_module whatever the status is
ProvEnsureRunning_always ==
    /\ run.phase = "ensure_running"
    /\ runtime' = start_module(runtime)
    /\ run' = [run EXCEPT !.phase = "tasks",
                          !.core = Append(@, "start_module")]
    /\ UNCHANGED <<containers, images, last, host, module_info>>
    /\ UNCHANGED elsewhere

\* if katanacore.status_module('docker') != 'running':
\*     katanacore.start_module('docker')
ProvEnsureRunning ==
    /\ run.phase = "ensure_running"
    /\ IF status_module(runtime) # "running"
       THEN /\ runtime' = start_module(runtime)
            /\ run' = [run EXCEPT !.phase = "tasks",
                                  !.core = Append(@, "start_module")]
       ELSE /\ runtime' = runtime
            /\ run' = [run EXCEPT !.phase = "tasks"]
    /\ UNCHANGED <<containers, images, last, host, module_info>>
    /\ UNCHANGED elsewhere

\* where the call stands after a task has returned or raised
AfterTask(r, task, res, ntasks) ==
    [r EXCEPT !.phase = IF ~res.returned THEN "failed"
                        ELSE IF r.pc = ntasks THEN "done" ELSE "tasks",
              !.pc = IF res.returned THEN r.pc + 1 ELSE r.pc,
              !.log = Append(@, [key |-> task.key, action |-> r.action,
                                 params |-> task.params,
                                 returned |-> res.returned,
                                 changed |-> res.changed,
                                 runtime |-> runtime])]

\* a loop that would go on to the next task after a raise
ProvRunDockerTask_swallows ==
    /\ run.phase = "tasks"
    /\ LET tasks == Tasks(run.action, module_info[1])
           task == tasks[run.pc]
           out == DockerCall(run.action, task.params, containers, images,
                             runtime)
       IN  /\ task.key = "docker"
           /\ Record(run.action, task.params, out)
           /\ run' = [AfterTask(run, task, out.res, Len(tasks))
                         EXCEPT !.phase = IF run.pc = Len(tasks)
                                          THEN "done" ELSE "tasks",
                                !.pc = run.pc + 1]
    /\ UNCHANGED <<runtime, host, module_info>>
    /\ UNCHANGED elsewhere

\* self._run_task(task, action) for the docker task
ProvRunDockerTask ==
    /\ run.phase = "tasks"
    /\ LET tasks == Tasks(run.action, module_info[1])
           task == tasks[run.pc]
           out == DockerCall(run.action, task.params, containers, images,
                             runtime)
       IN  /\ task.key = "docker"
           /\ Record(run.action, task.params, out)
           /\ run' = AfterTask(run, task, out.res, Len(tasks))
    /\ UNCHANGED <<runtime, host, module_info>>
    /\ UNCHANGED elsewhere

\* self._run_task(task, action) for a task of another plugin: it has its
\* effect and returns, or raises a fatal error and has none
ProvRunHostTask ==
    /\ run.phase = "tasks"
    /\ LET tasks == Tasks(run.action, module_info[1])
           task == tasks[run.pc]
           out == HostTask(task, host)
       IN  /\ task.key # "docker"
           /\ \E fatal \in BOOLEAN :
                IF fatal
                THEN /\ host' = host
                     /\ run' = AfterTask(run, task,
                                         Raise(<<"CriticalFunctionFailure",
                                                 task.key, "failed">>, <<>>),
                                         Len(tasks))
                ELSE /\ host' = out.host
                     /\ run' = AfterTask(run, task,
                                         Return(out.changed, None, <<>>),
                                         Len(tasks))
    /\ UNCHANGED <<containers, images, last, runtime, module_info>>
    /\ UNCHANGED elsewhere

\* the lifecycle call returns, or its exception reaches the caller
ProvReturn ==
    /\ run.phase \in {"done", "failed"}
    /\ run' = Idle
    /\ UNCHANGED <<containers, images, last, runtime, host, module_info>>
    /\ UNCHANGED elsewhere

NextProv ==
    \/ ProvCall
    \/ ProvEnsureInstalled
    \/ ProvEnsureRunning
    \/ ProvRunDockerTask
    \/ ProvRunHostTask
    \/ ProvReturn

SpecProv == InitProv /\ [][NextProv]_vars

(***************************************************************************)
(* The plugins that work on files.  A file is its content and its mode;    *)
(* a method's outcome is the env it leaves and its result.                  *)
(***************************************************************************)
POutcome(e, res) == [env |-> e, res |-> res]

\* a check that would never find the file
Exists_never(e, path) == FALSE

\* os.path.exists(path) / Path.exists()
Exists(e, path) == path \in DOMAIN e.files

\* open(path, 'w') ... write ... close
WriteFile(e, path, content) ==
    [e EXCEPT !.files = (path :> [content |-> content,
                                  mode |-> IF Exists(e, path)
                                           THEN e.files[path].mode
                                           ELSE <<"umask">>]) @@ @]

\* os.chmod(path, mode)
Chmod(e, path, mode) == [e EXCEPT !.files[path].mode = <<mode>>]

\* Path.unlink()
Unlink(e, path) ==
    [e EXCEPT !.files = [q \in (DOMAIN @) \ {path} |-> @[q]]]

\* the latest call of one of these plugins: what it was given, the env it
\* found, its result, and the result of the call before it when that one
\* had the same parameters
PluginRecord(op, params, input, out) ==
    /\ env' = out.env
    /\ pcall' = [op |-> op, params |-> params, input |-> <<input>>,
                 env |-> env, res |-> out.res,
                 first |-> IF pcall.op = op /\ pcall.params = params
                           THEN <<[returned |-> pcall.res.returned,
                                   changed |-> pcall.res.changed]>>
                           ELSE None]
    /\ UNCHANGED plugin
    /\ UNCHANGED resolution
    /\ UNCHANGED dockerside

(***************************************************************************)
(* ReverseProxy.install                                                    *)
(***************************************************************************)
Hostnames == {"demo.local", "store.local"}

ProxyPasses == {"http://localhost:8080", "http://localhost:3000"}

\* '/etc/samurai.d/certs/{hostname}' + '.' + suffix
CertPath(hostname, suffix) == <<"/etc/samurai.d/certs/", hostname, ".", suffix>>

CertSuffixes == <<"key", "csr", "crt", "ext">>

\* '/etc/nginx/conf.d/{hostname}.conf'
ConfPath(hostname) == <<"/etc/nginx/conf.d/", hostname, ".conf">>

\* nginx_conf_lines: the lines depend on hostname and proxy_pass only
NginxConf(hostname, proxy_pass) ==
    [listen |-> <<80, 8443>>, server_name |-> hostname,
     proxy_pass |-> proxy_pass,
     ssl_certificate |-> CertPath(hostname, "crt"),
     ssl_certificate_key |-> CertPath(hostname, "key")]

\* files_in_place: every one of the key, csr, crt and ext files exists
files_in_place(e, hostname) ==
    \A k \in 1..Len(CertSuffixes) : Exists(e, CertPath(hostname, CertSuffixes[k]))

\* openssl req writes the key and the request, the plugin writes the ext
\* file, openssl x509 writes the certificate unless it fails (the plugin
\* does not look at the exit status of either command)
GenerateCerts(e, hostname, x509) ==
    LET e1 == WriteFile(WriteFile(e, CertPath(hostname, "key"), "key"),
                        CertPath(hostname, "csr"), "csr")
        e2 == WriteFile(e1, CertPath(hostname, "ext"), <<"DNS.1", hostname>>)
    IN  IF x509 = "signed"
        THEN WriteFile(e2, CertPath(hostname, "crt"), "crt")
        ELSE e2

ReverseProxy_install(params, x509, e) ==
    LET missing == validate_params(params, <<"hostname", "proxy_pass">>,
                                   "reverseproxy")
    IN  IF missing # None
        THEN POutcome(e, Raise(missing, <<>>))
        ELSE LET hostname == params[1]["hostname"]
                 conf == NginxConf(hostname, params[1]["proxy_pass"])
                 e1 == IF files_in_place(e, hostname) THEN e
                       ELSE GenerateCerts(e, hostname, x509)
                 made == IF files_in_place(e, hostname) THEN <<>>
                         ELSE <<"openssl req", "open ext", "openssl x509">>
             IN  POutcome(Chmod(WriteFile(e1, ConfPath(hostname), conf),
                                ConfPath(hostname), 644),
                          Return(TRUE, None,
                                 made \o <<"open conf", "chmod conf">>))

ProxyDicts ==
    {[hostname |-> h, proxy_pass |-> pp] : h \in Hostnames, pp \in ProxyPasses}

ProxyParams ==
    {None} \cup {<<d>> : d \in ProxyDicts}
           \cup {Dict(keys, [hostname |-> "demo.local",
                             proxy_pass |-> "http://localhost:8080"]) :
                 keys \in {{}, {"hostname"}, {"proxy_pass"}}}

X509Outcomes == {"signed", "failed"}

ProxyInstall ==
    /\ plugin = "reverseproxy"
    /\ \E params \in ProxyParams, x509 \in X509Outcomes :
            PluginRecord("install", params, [x509 |-> x509],
                         ReverseProxy_install(params, x509, env))

(***************************************************************************)
(* DesktopIntegration.  What a call reads from its surroundings is its     *)
(* input: whether the user's session has a display or a Wayland display,   *)
(* how the xdg-desktop-menu command ends ("done", "fails" with a non-zero  *)
(* exit, or "missing"), whether GNOME integration is available, how the    *)
(* gsettings commands end, and whether the process runs as root.           *)
(***************************************************************************)
apps_dir == "/home/samurai/.local/share/applications"

\* self.apps_dir / filename
DesktopPath(filename) == <<apps_dir, filename>>

\* a desktop file's content: the text as its lines, each line as the
\* pieces of text it is made of, so that "Name=" is found wherever the
\* piece "Name" is followed by the piece "=" (inside GenericName=, or
\* inside a value, as well as at the start of a line)
Line(key, value) == <<key, "=", value>>

Launcher == <<Line("Type", "Application"), Line("Name", "Katana"),
              Line("Exec", "katana")>>

LauncherGui == <<Line("Type", "Application"), Line("Name", "Katana"),
                 Line("Exec", "katana --gui")>>

NoTypeLine == <<Line("Name", "Katana"), Line("Exec", "katana")>>

NoNameLine == <<Line("Type", "Application"), Line("Exec", "katana")>>

NoExecLine == <<Line("Type", "Application"), Line("Name", "Katana")>>

\* "Type=Application\nGenericName=Katana\nExec=katana"
GenericNameLine == <<Line("Type", "Application"),
                     <<"Generic", "Name", "=", "Katana">>,
                     Line("Exec", "katana")>>

\* "Type=Application\nName=Katana\nComment=set Exec=katana to run"
ExecInComment == <<Line("Type", "Application"), Line("Name", "Katana"),
                   <<"Comment", "=", "set ", "Exec", "=", "katana to run">> >>

Contents == {Launcher, LauncherGui, NoTypeLine, NoNameLine, NoExecLine,
             GenericNameLine, ExecInComment, <<>>}

\* f"{field}=" in content
HasField(content, field) ==
    \E k \in 1..Len(content) :
        \E j \in 1..(Len(content[k]) - 1) :
            content[k][j] = field /\ content[k][j + 1] = "="

required_fields == <<"Type", "Name", "Exec">>

\* _validate_desktop_file: no required field is missing
validate_desktop_file(content) ==
    \A k \in 1..Len(required_fields) : HasField(content, required_fields[k])

\* if not filename.endswith('.desktop'): filename += '.desktop'
EndsWithDesktop(filename) == filename \in {"katana.desktop"}

WithDesktop(filename) ==
    IF EndsWithDesktop(filename) THEN filename
    ELSE CASE filename = "katana" -> "katana.desktop"

\* _is_supported_environment: a display or a Wayland display is set
is_supported_environment(input) == input.display \/ input.wayland

\* _run_as_user(['xdg-desktop-menu', ...]): as root the command runs under
\* runuser, so a missing command is a non-zero exit of runuser
XdgOutcome(input) ==
    IF input.xdg = "missing" /\ input.root THEN "fails" ELSE input.xdg

\* a comparison that would always find the file different
file_differs_always(e, path, content) == TRUE

\* the file does not exist, or its content is not the requested one
file_differs(e, path, content) ==
    ~Exists(e, path) \/ e.files[path].content # content

\* write_text, chmod(0o755) and, as root, chown
WriteDesktopFile(e, path, content, root) ==
    [env |-> Chmod(WriteFile(e, path, content), path, 493),
     calls |-> <<"write_text", "chmod">>
               \o (IF root THEN <<"chown">> ELSE <<>>),
     msgs |-> <<"Desktop file created/updated">>]

\* eval(result.stdout): gsettings prints a list of favourites as a list of
\* strings, which eval reads, and an empty list as '@as []', on which eval
\* raises SyntaxError
EvalFails(favs) == favs = {}

\* _add_to_gnome_favorites(desktop_id)
add_to_gnome_favorites(e, desktop_id, input) ==
    IF ~input.gnome
    THEN [env |-> e, changed |-> FALSE, calls |-> <<>>,
          msg |-> "GNOME integration not available"]
    ELSE IF input.gsettings = "fails" \/ EvalFails(e.favs)
    THEN [env |-> e, changed |-> FALSE, calls |-> <<"gsettings get">>,
          msg |-> "Failed to add to favorites"]
    ELSE IF desktop_id \notin e.favs
    THEN [env |-> [e EXCEPT !.favs = @ \cup {desktop_id}], changed |-> TRUE,
          calls |-> <<"gsettings get", "gsettings set">>,
          msg |-> "Added to GNOME favorites"]
    ELSE [env |-> e, changed |-> FALSE, calls |-> <<"gsettings get">>,
          msg |-> "Already in favorites"]

\* the part of install inside the try block
InstallDesktopFile(e, filename, content, add_to_favorites, input) ==
    LET path == DesktopPath(filename)
        differs == file_differs(e, path, content)
        w == IF differs
             THEN WriteDesktopFile(e, path, content, input.root)
             ELSE [env |-> e, calls |-> <<>>,
                   msgs |-> <<"Desktop file unchanged">>]
        xdg == XdgOutcome(input)
        e2 == IF xdg = "done"
              THEN [w.env EXCEPT !.menu = @ \cup {filename}]
              ELSE w.env
        calls2 == w.calls \o <<"xdg-desktop-menu install">>
                  \o (IF xdg = "fails" THEN <<"update-desktop-database">>
                      ELSE <<>>)
        msgs2 == w.msgs \o <<IF xdg = "done"
                             THEN "Registered with desktop menu"
                             ELSE "Updated desktop database">>
        changed2 == differs \/ xdg = "done"
        fav == add_to_gnome_favorites(e2, filename, input)
    IN  IF xdg = "missing"
        THEN POutcome(w.env,
                      Return(FALSE,
                             <<"Failed to install desktop file: {}",
                               "FileNotFoundError">>,
                             w.calls \o <<"xdg-desktop-menu install">>))
        ELSE IF add_to_favorites
        THEN POutcome(fav.env,
                      Return(changed2 \/ fav.changed, msgs2 \o <<fav.msg>>,
                             calls2 \o fav.calls))
        ELSE POutcome(e2, Return(changed2, msgs2, calls2))

DesktopIntegration_install(params, input, e) ==
    LET missing == validate_params(params, <<"desktop_file">>, "desktop")
    IN  IF missing # None
        THEN POutcome(e, Raise(missing, <<>>))
        ELSE IF ~is_supported_environment(input)
        THEN POutcome(e, Return(FALSE,
                                <<"Not a supported desktop environment">>,
                                <<>>))
        ELSE LET desktop_file == params[1]["desktop_file"]
                 content == IF "content" \in DOMAIN desktop_file
                            THEN desktop_file["content"] ELSE <<>>
                 filename == IF "filename" \in DOMAIN desktop_file
                             THEN desktop_file["filename"] ELSE ""
                 add_to_favorites ==
                     IF "add_to_favorites" \in DOMAIN desktop_file
                     THEN desktop_file["add_to_favorites"] ELSE FALSE
             IN  IF desktop_file = <<>>
                 THEN POutcome(e, Return(FALSE,
                                 <<"No desktop file configuration provided">>,
                                 <<>>))
                 ELSE IF content = <<>> \/ filename = ""
                 THEN POutcome(e, Return(FALSE,
                        <<"Missing required desktop file content or filename">>,
                        <<>>))
                 ELSE IF ~validate_desktop_file(content)
                 THEN POutcome(e, Return(FALSE,
                                 <<"Invalid desktop file: {}",
                                   "Missing required fields">>,
                                 <<>>))
                 ELSE InstallDesktopFile(e, WithDesktop(filename), content,
                                         add_to_favorites, input)

\* the favourites part of remove
RemoveFavorite(e, filename, input) ==
    IF ~input.gnome
    THEN [env |-> e, changed |-> FALSE, calls |-> <<>>, msgs |-> <<>>]
    ELSE IF input.gsettings = "fails" \/ EvalFails(e.favs)
    THEN [env |-> e, changed |-> FALSE, calls |-> <<"gsettings get">>,
          msgs |-> <<"Failed to remove from favorites">>]
    ELSE IF filename \in e.favs
    THEN [env |-> [e EXCEPT !.favs = @ \ {filename}], changed |-> TRUE,
          calls |-> <<"gsettings get", "gsettings set">>,
          msgs |-> <<"Removed from GNOME favorites">>]
    ELSE [env |-> e, changed |-> FALSE, calls |-> <<"gsettings get">>,
          msgs |-> <<>>]

\* the part of remove inside the try block: xdg-desktop-menu uninstall
\* takes the entry out of the menu; when it fails the plugin deletes the
\* file itself
RemoveDesktopFile(e, filename, input) ==
    LET path == DesktopPath(filename)
        xdg == XdgOutcome(input)
        e1 == IF xdg = "done"
              THEN [e EXCEPT !.menu = @ \ {filename}]
              ELSE IF Exists(e, path) THEN Unlink(e, path) ELSE e
        calls1 == <<"xdg-desktop-menu uninstall">>
                  \o (IF xdg = "fails" /\ Exists(e, path)
                      THEN <<"unlink">> ELSE <<>>)
                  \o (IF xdg = "fails" THEN <<"update-desktop-database">>
                      ELSE <<>>)
        msgs1 == IF xdg = "done" THEN <<"Unregistered from desktop menu">>
                 ELSE (IF Exists(e, path) THEN <<"Removed desktop file">>
                       ELSE <<>>) \o <<"Updated desktop database">>
        changed1 == xdg = "done" \/ Exists(e, path)
        fav == RemoveFavorite(e1, filename, input)
    IN  IF xdg = "missing"
        THEN POutcome(e, Return(FALSE,
                                <<"Failed to remove desktop file: {}",
                                  "FileNotFoundError">>,
                                <<"xdg-desktop-menu uninstall">>))
        ELSE POutcome(fav.env,
                      Return(changed1 \/ fav.changed, msgs1 \o fav.msgs,
                             calls1 \o fav.calls))

DesktopIntegration_remove(params, input, e) ==
    LET missing == validate_params(params, <<"filename">>, "desktop")
    IN  IF missing # None
        THEN POutcome(e, Raise(missing, <<>>))
        ELSE IF ~is_supported_environment(input)
        THEN POutcome(e, Return(FALSE,
                                <<"Not a supported desktop environment">>,
                                <<>>))
        ELSE IF params[1]["filename"] = ""
        THEN POutcome(e, Return(FALSE, <<"No filename provided">>, <<>>))
        ELSE RemoveDesktopFile(e, WithDesktop(params[1]["filename"]), input)

\* the inputs of a call: everything is tried in a session with a display;
\* a Wayland-only session and a session with neither are tried once
DesktopInputs ==
    {[display |-> TRUE, wayland |-> FALSE, xdg |-> x, gnome |-> g[1],
      gsettings |-> g[2], root |-> FALSE] :
        x \in {"done", "fails", "missing"},
        g \in {<<FALSE, "done">>, <<TRUE, "done">>, <<TRUE, "fails">>}}
    \cup {[display |-> TRUE, wayland |-> FALSE, xdg |-> x, gnome |-> FALSE,
           gsettings |-> "done", root |-> TRUE] : x \in {"done", "missing"}}
    \cup {[display |-> d, wayland |-> ~d, xdg |-> "done", gnome |-> TRUE,
           gsettings |-> "done", root |-> FALSE] : d \in {FALSE}}
    \cup {[display |-> FALSE, wayland |-> FALSE, xdg |-> x, gnome |-> TRUE,
           gsettings |-> "done", root |-> TRUE] : x \in {"done", "fails"}}

DesktopFiles ==
    {[content |-> c, filename |-> "katana"] : c \in Contents}
    \cup {[content |-> c, filename |-> "katana.desktop"] :
            c \in {Launcher, LauncherGui}}
    \cup {[content |-> c, filename |-> "katana", add_to_favorites |-> TRUE] :
            c \in {Launcher, NoExecLine}}
    \cup {[content |-> Launcher], [filename |-> "katana"], <<>>}

DesktopInstallParams ==
    {None, <<<<>>>>} \cup {<<[desktop_file |-> df]>> : df \in DesktopFiles}

DesktopRemoveParams ==
    {None, <<<<>>>>}
    \cup {<<[filename |-> f]>> : f \in {"katana", "katana.desktop", ""}}

DesktopInstall ==
    /\ plugin = "desktop"
    /\ \E params \in DesktopInstallParams, input \in DesktopInputs :
            PluginRecord("install", params, input,
                         DesktopIntegration_install(params, input, env))

DesktopRemove ==
    /\ plugin = "desktop"
    /\ \E params \in DesktopRemoveParams, input \in DesktopInputs :
            PluginRecord("remove", params, input,
                         DesktopIntegration_remove(params, input, env))

(***************************************************************************)
(* GetUrl.  The pages the requests are answered with: what re.findall of   *)
(* the link pattern gives on the page's text, and the lines of the text,   *)
(* each as its parts between double quotes.  Only the lines that hold the  *)
(* word 'expanded_assets' are looked at for a fragment to follow.          *)
(***************************************************************************)
Page(matches, lines) == [matches |-> matches, lines |-> lines]

\* the pieces of text that hold the word 'expanded_assets'
ExpandedAssetsTexts ==
    {"https://ex.org/expanded_assets/1", "https://ex.org/expanded_assets/loop",
     "https://ex.org/expanded_assets/p1", "https://ex.org/expanded_assets/p2",
     "https://ex.org/expanded_assets/p3", "<!-- expanded_assets -->"}

\* re.findall('.*expanded_assets.*', response.text), each line split at '"'
MentionsExpandedAssets(line) ==
    \E k \in 1..Len(line) : line[k] \in ExpandedAssetsTexts

AssetLines(page) == SelectSeq(page.lines, MentionsExpandedAssets)

Web ==
    [url \in {"https://ex.org/tool.zip", "https://ex.org/tool.tgz",
              "https://ex.org/dl/tool.zip"} |-> Page(<<>>, <<>>)]
    @@ ("https://ex.org/direct" :>
            Page(<<"https://ex.org/tool.zip", "/dl/tool.zip">>, <<>>))
    @@ ("https://ex.org/relative" :> Page(<<"/dl/tool.zip">>, <<>>))
    @@ ("https://ex.org/releases" :>
            Page(<<>>, << <<"<include-fragment src=",
                           "https://ex.org/expanded_assets/1", ">">> >>))
    @@ ("https://ex.org/expanded_assets/1" :>
            Page(<<"/dl/tool.zip">>, <<>>))
    @@ ("https://ex.org/nothing" :>
            Page(<<>>, << <<"<!-- expanded_assets -->">> >>))
    @@ ("https://ex.org/plain" :>
            Page(<<>>, << <<"<a href=", "https://ex.org/about", ">">> >>))
    @@ ("https://ex.org/expanded_assets/loop" :>
            Page(<<>>, << <<"<include-fragment src=",
                           "https://ex.org/expanded_assets/loop", ">">> >>))

\* the depth at which the interpreter ends a recursion
RecursionLimit == 3

\* s.startswith('http')
StartsWithHttp(s) == s \notin {"/dl/tool.zip", "<include-fragment src=", ">",
                               "<a href=",
                               "<!-- expanded_assets -->"}

\* '{}://{}{}'.format(parsed_uri.scheme, parsed_uri.netloc, urls[0])
Joined(url, path) == CASE path = "/dl/tool.zip" -> "https://ex.org/dl/tool.zip"

\* the first part, over the lines in order, that starts with 'http'
RECURSIVE FirstHttp(_)
FirstHttp(parts) ==
    IF parts = <<>> THEN None
    ELSE IF StartsWithHttp(Head(parts)) THEN <<Head(parts)>>
    ELSE FirstHttp(Tail(parts))

RECURSIVE Flatten(_)
Flatten(lines) ==
    IF lines = <<>> THEN <<>> ELSE Head(lines) \o Flatten(Tail(lines))

\* _get_link_from_page(url, link_pattern): the url found, or what is raised;
\* fetched counts the requests made
RECURSIVE get_link_from_page(_, _)
get_link_from_page(url, depth) ==
    LET page == Web[url]
        next == FirstHttp(Flatten(AssetLines(page)))
    IN  IF depth > RecursionLimit
        THEN [url |-> None, raised |-> <<"RecursionError">>,
              fetched |-> depth - 1]
        ELSE IF page.matches # <<>>
        THEN [url |-> <<IF StartsWithHttp(page.matches[1])
                        THEN page.matches[1]
                        ELSE Joined(url, page.matches[1])>>,
              raised |-> None, fetched |-> depth]
        ELSE IF next # None
        THEN get_link_from_page(next[1], depth + 1)
        ELSE [url |-> None,
              raised |-> <<"CriticalFunctionFailure", "get_url",
                           "Could not find link pattern in resulting page.">>,
              fetched |-> depth]

\* url.endswith('.tgz') or url.endswith('.tar.gz')
IsArchive(url) == url \in {"https://ex.org/tool.tgz"}

\* the bytes a download of url gives
Body(url) == <<"body of", url>>

\* Unarchive().any({'url': url, 'dest': dest}): the archive is unpacked at
\* dest
Unarchive_any(url, dest, e) ==
    POutcome(WriteFile(e, <<dest>>, <<"unpacked", url>>),
             Return(TRUE, None, <<"Unarchive.any">>))

RECURSIVE Requests(_)
Requests(n) == IF n = 0 THEN <<>> ELSE <<"requests.get">> \o Requests(n - 1)

GetUrl_any(params, e) ==
    LET missing == validate_params(params, <<"url", "dest">>, "get_url")
    IN  IF missing # None
        THEN POutcome(e, Raise(missing, <<>>))
        ELSE LET dest == params[1]["dest"]
                 overwrite == IF HasKey(params, "overwrite")
                              THEN params[1]["overwrite"] ELSE FALSE
                 link == IF HasKey(params, "link_pattern")
                         THEN get_link_from_page(params[1]["url"], 1)
                         ELSE [url |-> <<params[1]["url"]>>, raised |-> None,
                               fetched |-> 0]
             IN  IF Exists(e, <<dest>>) /\ ~overwrite
                 THEN POutcome(e, Return(FALSE,
                                 <<"The specified file already exists: {}",
                                   dest>>, <<>>))
                 ELSE IF link.raised # None
                 THEN POutcome(e, Raise(link.raised, Requests(link.fetched)))
                 ELSE IF IsArchive(link.url[1])
                 THEN LET out == Unarchive_any(link.url[1], dest, e)
                      IN  POutcome(out.env,
                                   [out.res EXCEPT !.calls =
                                       Requests(link.fetched) \o @])
                 ELSE POutcome(WriteFile(e, <<dest>>, Body(link.url[1])),
                               Return(TRUE, None,
                                      Requests(link.fetched + 1)
                                      \o <<"open dest">>))

link_pattern == "[^\"]*tool[^\"]*zip"

GetUrlDicts ==
    {[url |-> u, dest |-> "/opt/tool.zip"] :
        u \in {"https://ex.org/tool.zip", "https://ex.org/tool.tgz"}}
    \cup {[url |-> "https://ex.org/tool.zip", dest |-> "/opt/tool.zip",
           overwrite |-> o] : o \in BOOLEAN}
    \cup {[url |-> u, dest |-> "/opt/tool.zip", link_pattern |-> link_pattern] :
            u \in {"https://ex.org/direct", "https://ex.org/relative",
                   "https://ex.org/releases", "https://ex.org/nothing",
                   "https://ex.org/plain",
                   "https://ex.org/expanded_assets/loop"}}
    \cup {[url |-> u, dest |-> "/opt/tool.zip", link_pattern |-> link_pattern,
           overwrite |-> TRUE] :
            u \in {"https://ex.org/releases", "https://ex.org/nothing"}}

GetUrlParams ==
    {None} \cup {<<d>> : d \in GetUrlDicts}
           \cup {Dict(keys, [url |-> "https://ex.org/tool.zip",
                             dest |-> "/opt/tool.zip"]) :
                 keys \in {{}, {"url"}, {"dest"}}}

GetUrlAny ==
    /\ plugin = "get_url"
    /\ \E params \in GetUrlParams :
            PluginRecord("any", params, <<>>, GetUrl_any(params, env))

(***************************************************************************)
(* The methods of the four plugins, each plugin on what it works on.       *)
(***************************************************************************)
InitPlugins ==
    /\ containers = <<>>
    /\ images \in SUBSET ({PulledImage(r) : r \in ImageRefs} \cup {Dangling})
    /\ last = NoCall
    /\ runtime = "running"
    /\ host = NoHost
    /\ module_info = None
    /\ run = Idle
    /\ plugin \in {"docker", "reverseproxy", "desktop", "get_url"}
    /\ plugin # "docker" => images = {}
    /\ env \in DesktopEnvs
    /\ plugin # "desktop" => env = NoEnv
    /\ pcall = NoPluginCall
    /\ resolution = NoLink

NextPlugins ==
    \/ DockerInstall
    \/ DockerRemove
    \/ DockerStart
    \/ DockerStop
    \/ ProxyInstall
    \/ DesktopInstall
    \/ DesktopRemove
    \/ GetUrlAny

SpecPlugins == InitPlugins /\ [][NextPlugins]_vars

(***************************************************************************)
(* _get_link_from_page, one call per step.  The pages are any three pages  *)
(* of a site: each has a link the pattern matches or has none, and has no  *)
(* line with a quoted url, a line with a plain link, or an                 *)
(* 'expanded_assets' line whose quoted url is any page of the three,       *)
(* itself included.  A call runs to its end, each recursive call    *)
(* making one request; the interpreter ends a recursion deeper than its    *)
(* limit with RecursionError.                                              *)
(***************************************************************************)
LinkPages == {"https://ex.org/expanded_assets/p1",
              "https://ex.org/expanded_assets/p2",
              "https://ex.org/expanded_assets/p3"}

PageKinds ==
    {Page(m, a) :
        m \in {<<>>, <<"/dl/tool.zip">>},
        a \in {<<>>, << <<"<a href=", "https://ex.org/about", ">">> >>}
              \cup {<< <<"<include-fragment src=", q, ">">> >> :
                       q \in LinkPages}}

Webs == [LinkPages -> PageKinds]

InitLink ==
    /\ containers = <<>>
    /\ images = {}
    /\ last = NoCall
    /\ runtime = "running"
    /\ host = NoHost
    /\ module_info = None
    /\ run = Idle
    /\ plugin = "get_url"
    /\ env = NoEnv
    /\ pcall = NoPluginCall
    /\ resolution \in {[phase |-> "fetching", web |-> w, url |-> u,
                         depth |-> 1, out |-> <<>>] :
                        w \in Webs, u \in LinkPages}

\* one call: the request, then the link found, the fragment followed, or
\* the raise
LinkFetch ==
    /\ resolution.phase = "fetching"
    /\ resolution.depth <= RecursionLimit
    /\ LET page == resolution.web[resolution.url]
           next == FirstHttp(Flatten(AssetLines(page)))
       IN  resolution' =
             IF page.matches # <<>>
             THEN [resolution EXCEPT
                     !.phase = "returned",
                     !.out = <<IF StartsWithHttp(page.matches[1])
                               THEN page.matches[1]
                               ELSE Joined(resolution.url, page.matches[1])>>]
             ELSE IF next # None
             THEN [resolution EXCEPT !.url = next[1], !.depth = @ + 1]
             ELSE [resolution EXCEPT
                     !.phase = "raised",
                     !.out = <<"CriticalFunctionFailure", "get_url",
                               "Could not find link pattern in resulting page.">>]
    /\ UNCHANGED <<plugin, env, pcall>>
    /\ UNCHANGED dockerside

\* the recursion is deeper than the interpreter allows
LinkRecursionError ==
    /\ resolution.phase = "fetching"
    /\ resolution.depth > RecursionLimit
    /\ resolution' = [resolution EXCEPT !.phase = "raised",
                                        !.out = <<"RecursionError">>]
    /\ UNCHANGED <<plugin, env, pcall>>
    /\ UNCHANGED dockerside

NextLink ==
    \/ LinkFetch
    \/ LinkRecursionError

\* a call that has begun goes on until it returns or raises
SpecLink == InitLink /\ [][NextLink]_vars /\ WF_vars(NextLink)

TypeOK ==
    /\ DOMAIN containers \subseteq Names
    /\ \A n \in DOMAIN containers : containers[n].status \in Statuses
    /\ last.op \in {"none", "install", "remove", "start", "stop"}
    /\ plugin \in {"docker", "reverseproxy", "desktop", "get_url"}
    /\ pcall.op \in {"none", "install", "remove", "any"}
    /\ env.menu \subseteq {"katana.desktop"}
    /\ env.favs \subseteq {"katana.desktop", OtherFavorite}
    /\ plugin = "docker" => env = NoEnv /\ pcall = NoPluginCall
    /\ plugin # "docker" => containers = <<>> /\ last = NoCall

(***************************************************************************)
(* Vocabulary of the properties: the latest invocation, the container it   *)
(* names, the state it found (last.containers, last.images) and the state  *)
(* it left (containers, images).                                           *)
(***************************************************************************)
Called(op) == last.op = op /\ HasKey(last.params, "name")

CalledInstall ==
    Called("install") /\ HasKey(last.params, "image")

LastName == last.params[1]["name"]

FoundAbsent == LastName \notin DOMAIN last.containers

FoundRunning ==
    LastName \in DOMAIN last.containers
    /\ last.containers[LastName].status = "running"

FoundStopped ==
    LastName \in DOMAIN last.containers
    /\ last.containers[LastName].status # "running"

NowAbsent == LastName \notin DOMAIN containers

NowRunning ==
    LastName \in DOMAIN containers /\ containers[LastName].status = "running"

NowStopped ==
    LastName \in DOMAIN containers /\ containers[LastName].status # "running"

Untouched == containers = last.containers /\ images = last.images

OthersUntouched ==
    \A n \in Names \ {LastName} :
        /\ (n \in DOMAIN containers) = (n \in DOMAIN last.containers)
        /\ n \in DOMAIN containers => containers[n] = last.containers[n]

Made(call) == \E k \in 1..Len(last.res.calls) : last.res.calls[k] = call

ReturnedChanged == last.res.returned /\ last.res.changed

ReturnedUnchanged == last.res.returned /\ ~last.res.changed

RaisedKind(kind) == last.res.raised # None /\ last.res.raised[1] = kind

(***************************************************************************)
(* C1.  Docker.remove on a container whose status is 'running' raises      *)
(* CriticalFunctionFailure('docker', ...) and mutates nothing: nothing is  *)
(* removed, no image is pruned, the container is still there and running.  *)
(***************************************************************************)
C1_RemoveRunningRaises ==
    (Called("remove") /\ FoundRunning) =>
        /\ ~last.res.returned
        /\ RaisedKind("CriticalFunctionFailure")
        /\ last.res.raised[2] = "docker"
        /\ ~Made("container.remove")
        /\ ~Made("images.prune")
        /\ Untouched
        /\ NowRunning

C1_Witness ==
    /\ Called("remove")
    /\ FoundRunning
    /\ RaisedKind("CriticalFunctionFailure")
    /\ Dangling \in images

(***************************************************************************)
(* C2.  Install from the absent state ends in present-running: after       *)
(* Docker.install has run with no container of that name, a container of   *)
(* that name exists and is running, whether or not the image is available  *)
(* locally and whether or not a build path is given.                       *)
(***************************************************************************)
C2_InstallAbsentEndsRunning ==
    (CalledInstall /\ last.res.returned /\ FoundAbsent) => NowRunning

(***************************************************************************)
(* C3.  Install from the present-stopped state ends in present-running:    *)
(* when the named container exists and is not running, Docker.install      *)
(* leaves it running.                                                      *)
(***************************************************************************)
C3_InstallStoppedEndsRunning ==
    (CalledInstall /\ last.res.returned /\ FoundStopped) => NowRunning

(***************************************************************************)
(* C4.  Install from present-running is a no-op: when the named container  *)
(* exists and is running, Docker.install returns changed=false, creates no *)
(* container, pulls or builds no image and leaves the container running.   *)
(***************************************************************************)
C4_InstallRunningNoOp ==
    (CalledInstall /\ FoundRunning) =>
        /\ ReturnedUnchanged
        /\ ~Made("containers.create")
        /\ ~Made("images.pull")
        /\ ~Made("images.build")
        /\ Untouched
        /\ NowRunning

(***************************************************************************)
(* C5.  Remove from present-stopped ends in absent: when the named         *)
(* container exists and its status is not 'running', Docker.remove removes *)
(* it, returns changed=true, raises nothing, and no container of that name *)
(* exists afterwards (the other containers are left alone).                *)
(***************************************************************************)
C5_RemoveStoppedEndsAbsent ==
    (Called("remove") /\ FoundStopped) =>
        /\ ReturnedChanged
        /\ last.res.raised = None
        /\ Made("container.remove")
        /\ NowAbsent
        /\ OthersUntouched

C5_Witness ==
    /\ Called("remove")
    /\ FoundStopped
    /\ NowAbsent
    /\ ReturnedChanged
    /\ DOMAIN containers # {}

(***************************************************************************)
(* C6.  Docker.start takes a present-stopped container to present-running  *)
(* and returns changed=true; on a container that is already running it     *)
(* returns changed=false, issues no start call and leaves it running.      *)
(***************************************************************************)
C6_StartTransitions ==
    /\ (Called("start") /\ FoundStopped) =>
          /\ ReturnedChanged
          /\ Made("container.start")
          /\ NowRunning
          /\ OthersUntouched
          /\ images = last.images
    /\ (Called("start") /\ FoundRunning) =>
          /\ ReturnedUnchanged
          /\ ~Made("container.start")
          /\ Untouched
          /\ NowRunning

\* the same start twice in a row: the first started the container, the
\* second found it running
C6_Witness ==
    /\ Called("start")
    /\ FoundRunning
    /\ ReturnedUnchanged
    /\ last.first # None
    /\ last.first[1].changed

(***************************************************************************)
(* C7.  Docker.stop takes a present-running container to present-stopped   *)
(* and returns changed=true; on a container that is already stopped it     *)
(* returns changed=false, issues no stop call and leaves it stopped.       *)
(***************************************************************************)
C7_StopTransitions ==
    /\ (Called("stop") /\ FoundRunning) =>
          /\ ReturnedChanged
          /\ Made("container.stop")
          /\ NowStopped
          /\ OthersUntouched
          /\ images = last.images
    /\ (Called("stop") /\ FoundStopped) =>
          /\ ReturnedUnchanged
          /\ ~Made("container.stop")
          /\ Untouched
          /\ NowStopped

\* the same stop twice in a row: the first stopped the container, the
\* second found it stopped
C7_Witness ==
    /\ Called("stop")
    /\ FoundStopped
    /\ ReturnedUnchanged
    /\ last.first # None
    /\ last.first[1].changed

(***************************************************************************)
(* C8.  When no container of the given name exists, each of Docker.remove, *)
(* Docker.start and Docker.stop returns changed=false with a non-empty     *)
(* message, raises nothing and leaves the state absent, so the task list   *)
(* that dispatched it goes on: the lifecycle call has not failed and       *)
(* stands at the next task of its list, or is done when there is none.     *)
(* Stated of the docker task a lifecycle call has just dispatched to a     *)
(* running daemon.                                                         *)
(***************************************************************************)
JustDispatched ==
    /\ run.log # <<>>
    /\ run.log[Len(run.log)].key = "docker"
    /\ run.log[Len(run.log)].runtime = "running"

C8_AbsentIsNotAnError ==
    \A op \in {"remove", "start", "stop"} :
        (JustDispatched /\ Called(op) /\ FoundAbsent) =>
            /\ ReturnedUnchanged
            /\ last.res.msg # None
            /\ last.res.raised = None
            /\ Untouched
            /\ NowAbsent
            /\ run.phase \in {"tasks", "done"}
            /\ run.pc = Len(run.log) + 1
            /\ run.phase = "tasks" <=>
                   run.pc <= Len(Tasks(run.action, module_info[1]))

\* remove() found no container and stands at its second task
C8_Witness ==
    /\ JustDispatched
    /\ Called("remove")
    /\ FoundAbsent
    /\ ReturnedUnchanged
    /\ run.phase = "tasks"
    /\ run.pc = 2
    /\ Tasks(run.action, module_info[1])[run.pc].key = "lineinfile"

(***************************************************************************)
(* C9.  Docker.install is idempotent: invoked twice in a row with the same *)
(* params starting from the absent state, the first call returns           *)
(* changed=true, the second returns changed=false and leaves the state the *)
(* first call left, whether or not the image was available locally before  *)
(* the first call.                                                         *)
(***************************************************************************)
C9_InstallIdempotent ==
    (CalledInstall /\ last.first # None /\ last.first[1].returned
        /\ last.first[1].absent) =>
        /\ last.first[1].changed
        /\ ReturnedUnchanged
        /\ Untouched

(***************************************************************************)
(* C10.  For every Docker method and every starting state, changed=true is *)
(* returned only if the invocation mutated external state (a container     *)
(* created, removed, started or stopped, or an image pulled or built); an  *)
(* invocation that mutates nothing returns changed=false.                  *)
(***************************************************************************)
C10_ChangedOnlyIfMutated ==
    (last.op # "none" /\ ReturnedChanged) => ~Untouched

(***************************************************************************)
(* C11.  Fatal halt without rollback (DockerProvisioner.install and        *)
(* remove): when dispatching task i raises, every task before i had        *)
(* returned, the failing step itself changes nothing, no task after i is   *)
(* dispatched (the call ends with the state as the raise left it), and the *)
(* effects of the tasks before i are still there: a failed install that    *)
(* got past git still has the checkout, past lineinfile still the hosts    *)
(* entry, past copy still the proxy config.  remove on a running           *)
(* container raises at its first task, the docker one, so the hosts entry  *)
(* and the proxy config are left as they were.                             *)
(***************************************************************************)
Halted == run.phase = "failed" /\ run.action \in {"install", "remove"}

C11_FatalHaltNoRollback ==
    [][ /\ (run.phase = "tasks" /\ run'.phase = "failed") =>
             /\ Len(run'.log) = run.pc
             /\ ~run'.log[run.pc].returned
             /\ \A k \in 1..(run.pc - 1) : run.log[k].returned
             /\ UNCHANGED <<containers, images, host>>
        /\ (run.phase = "tasks" /\ Len(run'.log) > Len(run.log)) =>
             \A k \in 1..Len(run.log) : run.log[k].returned
        /\ Halted =>
             /\ run' = Idle
             /\ UNCHANGED <<containers, images, host>>
             /\ run.action = "install" /\ Len(run.log) > 1 => host.repo
             /\ run.action = "install" /\ Len(run.log) > 3 => host.hosts
             /\ run.action = "install" /\ Len(run.log) > 4 => host.conf
        /\ ( /\ run.phase = "tasks" /\ run.action = "remove" /\ run.pc = 1
             /\ runtime = "running"
             /\ module_info[1].container.name \in DOMAIN containers
             /\ containers[module_info[1].container.name].status = "running" )
           => /\ run'.phase = "failed"
              /\ Len(run'.log) = 1
              /\ run'.log[1].key = "docker"
              /\ UNCHANGED <<containers, images, host>>
      ]_vars

\* remove has failed on a running container: one task dispatched, the hosts
\* entry and the proxy config of the earlier install still in place
C11_Witness ==
    /\ Halted
    /\ run.action = "remove"
    /\ Len(run.log) = 1
    /\ last.op = "remove"
    /\ RaisedKind("CriticalFunctionFailure")
    /\ FoundRunning
    /\ NowRunning
    /\ host.hosts
    /\ host.conf

(***************************************************************************)
(* C12.  Declared task order: what DockerProvisioner.install has           *)
(* dispatched is at every moment a prefix of git, docker, lineinfile,      *)
(* copy, service, each with action 'install'; what remove has dispatched   *)
(* is a prefix of docker, lineinfile (state absent), rm, each with action  *)
(* 'remove'.  Nothing is dispatched while the runtime pre-condition checks *)
(* are still to run, each dispatch adds exactly one task, and a call that  *)
(* completes has dispatched the whole list, every task once.               *)
(***************************************************************************)
InstallOrder == <<"git", "docker", "lineinfile", "copy", "service">>

RemoveOrder == <<"docker", "lineinfile", "rm">>

Declared(action) ==
    CASE action = "install" -> InstallOrder
      [] action = "remove" -> RemoveOrder

C12_DeclaredOrder ==
    run.action \in {"install", "remove"} =>
        /\ Len(run.log) <= Len(Declared(run.action))
        /\ \A k \in 1..Len(run.log) :
            /\ run.log[k].key = Declared(run.action)[k]
            /\ run.log[k].action = run.action
            /\ ( run.action = "remove" /\ k = 2 ) =>
                 /\ HasKey(run.log[k].params, "state")
                 /\ Get(run.log[k].params, "state") = <<"absent">>
            /\ ( run.action = "install" /\ k = 3 ) =>
                 ~HasKey(run.log[k].params, "state")
        /\ run.phase \in {"ensure_installed", "ensure_running"} =>
             run.log = <<>>
        /\ run.phase = "tasks" => Len(run.log) = run.pc - 1
        /\ run.phase = "done" => Len(run.log) = Len(Declared(run.action))

\* an install and a remove that have each run to the end of their list
C12_Witness ==
    /\ run.phase = "done"
    /\ run.action = "remove"
    /\ Len(run.log) = 3
    /\ host.repo
    /\ ~host.hosts
    /\ ~host.conf

(***************************************************************************)
(* C14.  Pre-condition checks are no-ops when already satisfied: in every  *)
(* lifecycle action, a check that finds the runtime status 'running'       *)
(* calls neither install_module nor start_module, leaves the runtime as    *)
(* it is, and goes on towards the tasks; a call whose checks all found     *)
(* 'running' reaches its tasks with no katanacore call made.               *)
(***************************************************************************)
C14_ChecksAreNoOps ==
    [][ ( run.phase \in {"ensure_installed", "ensure_running"}
          /\ status_module(runtime) = "running" ) =>
            /\ run'.core = run.core
            /\ runtime' = runtime
            /\ run'.phase = IF run.phase = "ensure_installed"
                            THEN "ensure_running" ELSE "tasks"
            /\ run'.phase # "failed"
      ]_vars

\* a stop whose check found the runtime running has dispatched its task
C14_Witness ==
    /\ run.action = "stop"
    /\ run.phase = "done"
    /\ run.core = <<>>
    /\ runtime = "running"
    /\ Len(run.log) = 1
    /\ run.log[1].returned

(***************************************************************************)
(* C15.  The runtime is driven to readiness before delegating: in every    *)
(* lifecycle action and from every initial runtime status, the runtime     *)
(* status is 'running' when the first task is dispatched.                  *)
(***************************************************************************)
C15_RunningAtFirstTask ==
    run.log # <<>> => run.log[1].runtime = "running"

(***************************************************************************)
(* C16.  Port binding: the docker task of DockerProvisioner.install        *)
(* carries one ports entry per distinct guest port of the descriptor,      *)
(* keyed '<guest>/tcp', whose value is the host port of the entry (80      *)
(* when host is omitted; the last entry of a guest port is the one that    *)
(* counts), and a container that Docker.install creates has exactly these  *)
(* container ports, each bound to 127.0.0.1 and that host port.            *)
(***************************************************************************)
Tcp(guest) == IF guest = 80 THEN "80/tcp" ELSE "443/tcp"

LastEntry(list, guest) ==
    list[CHOOSE k \in 1..Len(list) :
            /\ list[k].guest = guest
            /\ \A j \in (k + 1)..Len(list) : list[j].guest # guest]

WantedPorts(list) ==
    { [key |-> Tcp(g),
       port |-> IF LastEntry(list, g).host = None
                THEN 80 ELSE LastEntry(list, g).host[1]] :
      g \in {list[k].guest : k \in 1..Len(list)} }

InstallDispatched ==
    run.action = "install" /\ Len(run.log) >= 2

InstallCreated ==
    /\ InstallDispatched
    /\ run.log[2].returned
    /\ last.op = "install"
    /\ Made("containers.create")

C16_PortBinding ==
    InstallDispatched =>
        LET wanted == WantedPorts(module_info[1].container.ports)
            passed == run.log[2].params[1].ports
            name == module_info[1].container.name
        IN  /\ DOMAIN passed = {w.key : w \in wanted}
            /\ \A w \in wanted : passed[w.key] = w.port
            /\ Cardinality(wanted) = Cardinality(DOMAIN passed)
            /\ InstallCreated =>
                 /\ name \in DOMAIN containers
                 /\ DOMAIN containers[name].ports = {w.key : w \in wanted}
                 /\ \A w \in wanted :
                        containers[name].ports[w.key] = <<"127.0.0.1", w.port>>

\* guest 80, host 8080 of the descriptor: the container created by the
\* install is bound to 127.0.0.1:8080
C16_Witness ==
    /\ InstallCreated
    /\ module_info[1].container.ports = <<[guest |-> 80, host |-> <<8080>>]>>
    /\ "app" \in DOMAIN containers
    /\ containers["app"].ports = ("80/tcp" :> <<"127.0.0.1", 8080>>)

(***************************************************************************)
(* Vocabulary for the plugins that work on files.                          *)
(***************************************************************************)
PCalled(p, op) == plugin = p /\ pcall.op = op

PMade(c) == \E k \in 1..Len(pcall.res.calls) : pcall.res.calls[k] = c

PReturnedUnchanged == pcall.res.returned /\ ~pcall.res.changed

PUntouched == env = pcall.env

Repeated == pcall.first # None /\ pcall.first[1].returned

(***************************************************************************)
(* C13.  Missing parameter: a method of any of the four plugins that is    *)
(* given params None, or params without one of its required keys, raises   *)
(* MissingRequiredParam with the first missing key of its required list    *)
(* and the alias of its plugin, having made no external call and changed   *)
(* nothing.                                                                *)
(***************************************************************************)
RequiredKeys(p, op) ==
    CASE p = "docker" /\ op = "install" -> <<"name", "image">>
      [] p = "docker" /\ op \in {"remove", "start", "stop"} -> <<"name">>
      [] p = "reverseproxy" -> <<"hostname", "proxy_pass">>
      [] p = "get_url" -> <<"url", "dest">>
      [] p = "desktop" /\ op = "install" -> <<"desktop_file">>
      [] p = "desktop" /\ op = "remove" -> <<"filename">>

Lacking(params, keys) ==
    params = None \/ \E k \in 1..Len(keys) : keys[k] \notin DOMAIN params[1]

FirstLacking(params, keys) ==
    IF params = None \/ keys[1] \notin DOMAIN params[1]
    THEN keys[1] ELSE keys[2]

C13_MissingParameter ==
    /\ ( plugin = "docker" /\ last.op # "none"
         /\ Lacking(last.params, RequiredKeys("docker", last.op)) ) =>
            /\ last.res.raised =
                   <<"MissingRequiredParam",
                     FirstLacking(last.params,
                                  RequiredKeys("docker", last.op)),
                     "docker">>
            /\ last.res.calls = <<>>
            /\ Untouched
    /\ ( plugin # "docker" /\ pcall.op # "none"
         /\ Lacking(pcall.params, RequiredKeys(plugin, pcall.op)) ) =>
            /\ pcall.res.raised =
                   <<"MissingRequiredParam",
                     FirstLacking(pcall.params,
                                  RequiredKeys(plugin, pcall.op)),
                     plugin>>
            /\ pcall.res.calls = <<>>
            /\ PUntouched

\* GetUrl.any given a url and no dest, with a file already downloaded
C13_Witness ==
    /\ PCalled("get_url", "any")
    /\ pcall.params # None
    /\ DOMAIN pcall.params[1] = {"url"}
    /\ pcall.res.raised = <<"MissingRequiredParam", "dest", "get_url">>
    /\ env.files # <<>>

(***************************************************************************)
(* C17.  ReverseProxy.install is idempotent: invoked again with the same   *)
(* hostname and proxy_pass, the certificate files and the proxy config    *)
(* being in place from the first invocation, it returns changed=false and  *)
(* does not write the proxy config file.                                   *)
(***************************************************************************)
C17_ProxyInstallIdempotent ==
    ( /\ PCalled("reverseproxy", "install")
      /\ Repeated
      /\ files_in_place(pcall.env, pcall.params[1]["hostname"])
      /\ Exists(pcall.env, ConfPath(pcall.params[1]["hostname"])) )
    => /\ PReturnedUnchanged
       /\ ~PMade("open conf")

(***************************************************************************)
(* C18.  DesktopIntegration.install is idempotent: in a supported          *)
(* environment, invoked again with the same parameters, the desktop file   *)
(* holding the same content already (and the entry being in the favorites  *)
(* when add_to_favorites is set), it returns changed=false, whether the    *)
(* desktop-menu command succeeds or fails.                                 *)
(***************************************************************************)
InstallReached ==
    /\ PCalled("desktop", "install")
    /\ HasKey(pcall.params, "desktop_file")
    /\ pcall.input[1].display \/ pcall.input[1].wayland
    /\ {"content", "filename"} \subseteq DOMAIN pcall.params[1]["desktop_file"]
    /\ validate_desktop_file(pcall.params[1]["desktop_file"]["content"])

AskedFile == <<apps_dir, "katana.desktop">>

AskedContent == pcall.params[1]["desktop_file"]["content"]

AskedFavorite ==
    /\ "add_to_favorites" \in DOMAIN pcall.params[1]["desktop_file"]
    /\ pcall.params[1]["desktop_file"]["add_to_favorites"]

FoundSame ==
    /\ AskedFile \in DOMAIN pcall.env.files
    /\ pcall.env.files[AskedFile].content = AskedContent

C18_DesktopInstallIdempotent ==
    ( /\ InstallReached
      /\ Repeated
      /\ FoundSame
      /\ AskedFavorite => "katana.desktop" \in pcall.env.favs
      /\ pcall.input[1].xdg \in {"done", "fails"} )
    => PReturnedUnchanged

(***************************************************************************)
(* C19.  DesktopIntegration.install reads back and compares before it      *)
(* writes: the desktop file is written, and its mode set (and, as root,    *)
(* its ownership), exactly when the file does not exist or holds another   *)
(* content; a file that holds the requested content is left as it is.      *)
(***************************************************************************)
C19_ReadbackAndCompare ==
    InstallReached =>
        /\ PMade("write_text") <=> ~FoundSame
        /\ PMade("chmod") <=> PMade("write_text")
        /\ PMade("chown") <=> (PMade("write_text") /\ pcall.input[1].root)
        /\ FoundSame => env.files[AskedFile] = pcall.env.files[AskedFile]
        /\ ~FoundSame =>
              env.files[AskedFile] = [content |-> AskedContent,
                                      mode |-> <<493>>]

\* an install that found the requested content and wrote nothing
C19_Witness ==
    /\ InstallReached
    /\ FoundSame
    /\ ~PMade("write_text")
    /\ pcall.res.returned
    /\ env.files[AskedFile].content = AskedContent

(***************************************************************************)
(* C20.  Without a display and a Wayland display, and likewise with an     *)
(* empty desktop file configuration, without content or filename, or with  *)
(* a content lacking one of Type=, Name=, Exec=, DesktopIntegration.install *)
(* returns changed=false with a message, raises nothing, writes no file,   *)
(* registers nothing and changes no favorites; DesktopIntegration.remove   *)
(* without a display and a Wayland display returns changed=false and       *)
(* deletes nothing.                                                        *)
(***************************************************************************)
Refused ==
    /\ PReturnedUnchanged
    /\ pcall.res.msg # <<>>
    /\ pcall.res.raised = None
    /\ pcall.res.calls = <<>>
    /\ PUntouched

\* the content has an entry of this field: a line that sets this key
SetsField(content, field) ==
    \E k \in 1..Len(content) :
        Len(content[k]) >= 2 /\ content[k][1] = field /\ content[k][2] = "="

\* a supported environment and a desktop file configuration with a
\* filename and a content that has the three fields
WellFormedInstall ==
    /\ pcall.input[1].display \/ pcall.input[1].wayland
    /\ {"content", "filename"} \subseteq DOMAIN pcall.params[1]["desktop_file"]
    /\ \A f \in {"Type", "Name", "Exec"} :
          SetsField(pcall.params[1]["desktop_file"]["content"], f)

C20_UnsupportedOrInvalid ==
    /\ ( /\ PCalled("desktop", "install")
         /\ HasKey(pcall.params, "desktop_file")
         /\ ~WellFormedInstall ) => Refused
    /\ ( /\ PCalled("desktop", "remove")
         /\ HasKey(pcall.params, "filename")
         /\ ~pcall.input[1].display
         /\ ~pcall.input[1].wayland ) => Refused

(***************************************************************************)
(* C21.  Best-effort fallback in DesktopIntegration: whenever the          *)
(* xdg-desktop-menu command is unavailable or fails, install and remove    *)
(* run the desktop database update before they return (and remove has      *)
(* deleted the desktop file if there was one), and neither raises; a       *)
(* failing favorites step never makes the call raise.                      *)
(***************************************************************************)
RemoveReached ==
    /\ PCalled("desktop", "remove")
    /\ HasKey(pcall.params, "filename")
    /\ pcall.input[1].display \/ pcall.input[1].wayland
    /\ pcall.params[1]["filename"] # ""

MenuCommandDown == pcall.input[1].xdg \in {"fails", "missing"}

C21_BestEffortFallback ==
    /\ (InstallReached /\ MenuCommandDown) =>
            /\ pcall.res.returned
            /\ PMade("update-desktop-database")
    /\ (RemoveReached /\ MenuCommandDown) =>
            /\ pcall.res.returned
            /\ PMade("update-desktop-database")
            /\ AskedFile \notin DOMAIN env.files
    /\ ( (InstallReached \/ RemoveReached)
         /\ pcall.input[1].gsettings = "fails" ) => pcall.res.returned


(***************************************************************************)
(* Vocabulary for GetUrl.any: the dest asked for, whether overwrite is     *)
(* set, and the url the download is to be made from (the url given, or     *)
(* the link the pattern finds from the page given), if there is one.       *)
(***************************************************************************)
AnyReached ==
    /\ PCalled("get_url", "any")
    /\ HasKey(pcall.params, "url")
    /\ HasKey(pcall.params, "dest")

AskedDest == <<pcall.params[1]["dest"]>>

AskedOverwrite ==
    /\ HasKey(pcall.params, "overwrite")
    /\ pcall.params[1]["overwrite"]

AskedPattern == HasKey(pcall.params, "link_pattern")

FoundDest == AskedDest \in DOMAIN pcall.env.files

Skipping == AnyReached /\ FoundDest /\ ~AskedOverwrite

Fetching == AnyReached /\ (~FoundDest \/ AskedOverwrite)

LinkOf(url) ==
    CASE url = "https://ex.org/direct" -> <<"https://ex.org/tool.zip">>
      [] url = "https://ex.org/relative" -> <<"https://ex.org/dl/tool.zip">>
      [] url = "https://ex.org/releases" -> <<"https://ex.org/dl/tool.zip">>
      [] OTHER -> <<>>

DownloadUrl ==
    IF AskedPattern THEN LinkOf(pcall.params[1]["url"])
    ELSE <<pcall.params[1]["url"]>>

PlainDownload ==
    /\ DownloadUrl # <<>>
    /\ DownloadUrl[1] # "https://ex.org/tool.tgz"

Skipped ==
    /\ PReturnedUnchanged
    /\ pcall.res.msg # <<>>
    /\ pcall.res.calls = <<>>
    /\ PUntouched

Downloaded ==
    /\ pcall.res.returned
    /\ pcall.res.changed
    /\ PMade("requests.get")
    /\ PMade("open dest")
    /\ AskedDest \in DOMAIN env.files
    /\ DownloadUrl # <<>>
    /\ env.files[AskedDest].content = <<"body of", DownloadUrl[1]>>

(***************************************************************************)
(* C22.  GetUrl.any skips an existing target: when dest exists and         *)
(* overwrite is absent or false it returns changed=false with a message,   *)
(* makes no request and leaves the file as it is, so a second identical    *)
(* invocation after a download returns changed=false; when dest does not   *)
(* exist, or overwrite is true, it fetches, writes dest and returns        *)
(* changed=true.                                                           *)
(***************************************************************************)
C22_SkipsElseFetches ==
    /\ Skipping => Skipped
    /\ Fetching => Downloaded

(***************************************************************************)
(* C22, as the code has it: the skip is as stated; when dest does not      *)
(* exist, or overwrite is true, and there is a url to download from (no    *)
(* link pattern, or the pattern's link is found) that is not a .tgz or     *)
(* .tar.gz archive, it fetches, writes dest and returns changed=true; when *)
(* no link is found it raises and leaves dest as it was; a .tgz url is     *)
(* handed to Unarchive, whose result is returned, with no download and no  *)
(* opening of dest by GetUrl itself.                                       *)
(***************************************************************************)
C22_SkipsElseFetchesWhatIsFound ==
    /\ Skipping => Skipped
    /\ ( Skipping /\ ~AskedPattern /\ PlainDownload /\ Repeated
         /\ pcall.first[1].changed ) => Skipped
    /\ (Fetching /\ PlainDownload) => Downloaded
    /\ (Fetching /\ DownloadUrl = <<>>) =>
            /\ ~pcall.res.returned
            /\ PUntouched
    /\ (Fetching /\ DownloadUrl = <<"https://ex.org/tool.tgz">>) =>
            /\ PMade("Unarchive.any")
            /\ ~PMade("requests.get")
            /\ ~PMade("open dest")
            /\ pcall.res.returned

\* a second identical invocation, after the download of the first
C22_Witness ==
    /\ Skipping
    /\ Repeated
    /\ pcall.first[1].changed
    /\ Skipped
    /\ env.files[AskedDest].content = <<"body of", pcall.params[1]["url"]>>


(***************************************************************************)
(* C23.  GetUrl.any given a link_pattern that matches no link, on the page *)
(* fetched or on a fragment page followed from it, raises                  *)
(* CriticalFunctionFailure('get_url', ...) without opening dest, which is  *)
(* left exactly as it was.                                                 *)
(***************************************************************************)
C23_NoLinkRaisesCritical ==
    (Fetching /\ AskedPattern /\ DownloadUrl = <<>>) =>
        /\ pcall.res.raised # None
        /\ pcall.res.raised[1] = "CriticalFunctionFailure"
        /\ pcall.res.raised[2] = "get_url"
        /\ PMade("requests.get")
        /\ ~PMade("open dest")
        /\ PUntouched


(***************************************************************************)
(* C24.  Link resolution terminates: over any pages and any way their      *)
(* 'expanded_assets' lines refer to each other, a page referring to itself *)
(* and cycles of pages included, _get_link_from_page eventually returns a  *)
(* url or raises CriticalFunctionFailure.                                  *)
(***************************************************************************)
C24_ResolutionEnds ==
    <>( \/ resolution.phase = "returned"
        \/ ( /\ resolution.phase = "raised"
             /\ resolution.out[1] = "CriticalFunctionFailure" ) )


(***************************************************************************)
(* C25.  Over any sequence of Docker install, remove, start and stop       *)
(* invocations, each container name is absent, present and not running,    *)
(* or present and running; no single operation takes a name from present   *)
(* and running to absent; and a stop on a name, from any of the three      *)
(* states, followed by a remove on the same name raises nothing and        *)
(* leaves the name absent.                                                 *)
(***************************************************************************)
Lifecycle(c, n) ==
    IF n \notin DOMAIN c THEN "absent"
    ELSE IF c[n].status = "running" THEN "present-running"
    ELSE "present-stopped"

StopOn(l) == l.op = "stop" /\ HasKey(l.params, "name")

C25_LifecycleStateMachine ==
    [][ /\ \A n \in Names :
             /\ n \in DOMAIN containers' =>
                    containers'[n].status \in {"created", "running", "exited"}
             /\ Lifecycle(containers', n) \in
                    {"absent", "present-stopped", "present-running"}
             /\ Lifecycle(containers, n) = "present-running" =>
                    Lifecycle(containers', n) # "absent"
        /\ StopOn(last') =>
             /\ last'.res.returned
             /\ Lifecycle(containers', last'.params[1]["name"])
                    \in {"absent", "present-stopped"}
        /\ ( StopOn(last) /\ last'.op = "remove"
             /\ last'.params = last.params ) =>
             /\ last.res.returned
             /\ last'.res.returned
             /\ Lifecycle(containers', last.params[1]["name"]) = "absent"
      ]_vars

\* a container that a stop took from running to exited has been removed
C25_Witness ==
    /\ Called("remove")
    /\ last.res.returned
    /\ LastName \in DOMAIN last.containers
    /\ last.containers[LastName].status = "exited"
    /\ NowAbsent

====
